---- MODULE Spec2Model ----
(***************************************************************************)
(* SkiaColor-Extract: the k-means colour quantizer (utils/colorUtils.ts),  *)
(* the role identification of SkiaService.processImage and the loading of  *)
(* the engine by SkiaService.init (services/skiaService.ts), and the       *)
(* extraction requests of the App component.                               *)
(*                                                                         *)
(* Numbers.  The code computes in IEEE doubles, and so does the model:     *)
(*   - an RGB value is [r, g, b, n], standing for the doubles nearest to   *)
(*     r/n, g/n and b/n; a sampled pixel has n = 1, a mean has n = the     *)
(*     cluster's count (the sums are integers, exact in a double, and the  *)
(*     mean is their rounded quotient); n = 0 stands for channels that     *)
(*     are undefined (pixels[idx] read past the end of the buffer), NaN    *)
(*     in every arithmetic use;                                            *)
(*   - an HSL component, a distance and a score are doubles, computed by   *)
(*     the operations of the code in the order of the code, each rounded   *)
(*     to the nearest double.                                              *)
(* Sequences are 1-based: centroid c of the code is element c + 1 here.    *)
(* The array assignments of quantizeColors is written and never read; it   *)
(* is not part of the state.                                               *)
(***************************************************************************)
EXTENDS Integers, Sequences, FiniteSets, TLC

VARIABLES
    pixels,         \* the RGBA buffer, one record [r, g, b, a] per pixel
    k,              \* the number of clusters requested
    centroids,      \* quantizeColors: centroids[]
    clusterSums,    \* quantizeColors: clusterSums (one [r, g, b] per cluster)
    clusterCounts,  \* quantizeColors: clusterCounts
    iter,           \* quantizeColors: the refinement iterations completed
    colors,         \* the sequence quantizeColors returned
    palette,        \* the Palette processImage returned
    error,          \* the error thrown, "none" if none
    pc,             \* the position in the pipeline
    rgbArg,         \* rgbToHex: the argument, an RGB value [r, g, b, n]
    hexString,      \* rgbToHex: the string returned, "" before the call
    imageUrl,       \* App: the state imageUrl
    inputUrl,       \* App: the state inputUrl
    appPalette,     \* App: the state palette
    status,         \* App: state.status
    mount,          \* App: the mount effect and its skiaService.init() promise
    calls,          \* App: the handleExtract calls, [url, at] each
    isLoaded,       \* SkiaService: isLoaded
    loadPromise,    \* SkiaService: loadPromise, "null" or the promise's state
    scriptLoaded,   \* typeof CanvasKitInit !== 'undefined'
    interval,       \* SkiaService.init: the polling interval is set
    checks,         \* SkiaService.init: checks
    engine,         \* the promise CanvasKitInit returned: "none" or its state
    invocations,    \* the number of invocations of CanvasKitInit
    callers         \* what each init() call found, in the order of the calls

quantVars == <<pixels, k, centroids, clusterSums, clusterCounts, iter, colors,
               palette, error, pc>>

hexVars == <<rgbArg, hexString>>

appVars == <<imageUrl, inputUrl, appPalette, status, mount, calls>>

skiaVars == <<isLoaded, loadPromise, scriptLoaded, interval, checks, engine,
              invocations, callers>>

vars == <<quantVars, hexVars, appVars, skiaVars>>

---------------------------------------------------------------------------
(* Bounds of the model *)

MaxPixels == 3

MaxK == 3

MaxColors == 3

MaxPop == 2

MaxCalls == 2

\* Colours of the opaque pixels of a buffer.
Colours ==
    { [r |-> 255, g |-> 0, b |-> 0],
      [r |-> 0, g |-> 0, b |-> 9],
      [r |-> 240, g |-> 200, b |-> 200] }

\* The pixels of a buffer: the colours at the least alpha that counts, and
\* one pixel of another colour at the greatest alpha that is skipped.
PixelValues ==
    { [r |-> c.r, g |-> c.g, b |-> c.b, a |-> 128] : c \in Colours }
        \cup { [r |-> 0, g |-> 200, b |-> 0, a |-> 127] }

\* Values of k: negative, zero, positive.
KValues == {-2, -1} \cup (0 .. MaxK)

RECURSIVE SeqsUpTo(_, _)
SeqsUpTo(S, n) ==
    IF n = 0 THEN { <<>> }
    ELSE LET shorter == SeqsUpTo(S, n - 1)
         IN  shorter \cup { Append(s, x) : s \in { t \in shorter : Len(t) = n - 1 }, x \in S }

---------------------------------------------------------------------------
(* Natural numbers of any size: the limbs in base Radix, the least limb    *)
(* first, no leading zero limb; <<>> is 0.  A value that is used more than *)
(* once is passed as an argument.                                          *)

Radix == 32768

LimbBits == 15

RECURSIVE Pow2(_)
Pow2(n) == IF n = 0 THEN 1 ELSE 2 * Pow2(n - 1)

RECURSIVE Limbs(_)
Limbs(i) == IF i = 0 THEN <<>> ELSE <<i % Radix>> \o Limbs(i \div Radix)

RECURSIVE Trim(_)
Trim(a) ==
    IF a = <<>> THEN a
    ELSE IF a[Len(a)] = 0 THEN Trim(SubSeq(a, 1, Len(a) - 1))
    ELSE a

RECURSIVE CmpFrom(_, _, _)
CmpFrom(a, b, i) ==
    IF i = 0 THEN 0
    ELSE IF a[i] < b[i] THEN -1
    ELSE IF a[i] > b[i] THEN 1
    ELSE CmpFrom(a, b, i - 1)

\* -1, 0, 1 as a < b, a = b, a > b
Cmp(a, b) ==
    IF Len(a) < Len(b) THEN -1
    ELSE IF Len(a) > Len(b) THEN 1
    ELSE CmpFrom(a, b, Len(a))

RECURSIVE AddFrom(_, _, _, _)
AddFrom(a, b, i, carry) ==
    IF i > Len(a) /\ i > Len(b) THEN (IF carry = 0 THEN <<>> ELSE <<carry>>)
    ELSE LET t == (IF i <= Len(a) THEN a[i] ELSE 0)
                  + (IF i <= Len(b) THEN b[i] ELSE 0) + carry
         IN  <<t % Radix>> \o AddFrom(a, b, i + 1, t \div Radix)

Add(a, b) == AddFrom(a, b, 1, 0)

RECURSIVE SubFrom(_, _, _, _)
SubFrom(a, b, i, borrow) ==
    IF i > Len(a) THEN <<>>
    ELSE LET t == a[i] - (IF i <= Len(b) THEN b[i] ELSE 0) - borrow
         IN  <<(t + Radix) % Radix>> \o SubFrom(a, b, i + 1, IF t < 0 THEN 1 ELSE 0)

\* a - b, for a >= b
Sub(a, b) == Trim(SubFrom(a, b, 1, 0))

RECURSIVE MulSmallFrom(_, _, _, _)
MulSmallFrom(a, d, i, carry) ==
    IF i > Len(a) THEN (IF carry = 0 THEN <<>> ELSE <<carry>>)
    ELSE LET t == a[i] * d + carry
         IN  <<t % Radix>> \o MulSmallFrom(a, d, i + 1, t \div Radix)

\* a * d, for 0 <= d < Radix
MulSmall(a, d) == IF d = 0 THEN <<>> ELSE MulSmallFrom(a, d, 1, 0)

\* a * Radix^n
ShiftLimbs(a, n) == IF a = <<>> THEN <<>> ELSE [i \in 1 .. n |-> 0] \o a

RECURSIVE Mul(_, _)
Mul(a, b) ==
    IF a = <<>> \/ b = <<>> THEN <<>>
    ELSE Add(MulSmall(a, b[1]), ShiftLimbs(Mul(a, Tail(b)), 1))

\* the quotient qr.q with one more limb, digit, at its low end
PushDigit(qr, digit) == [q |-> Append(qr.q, digit), r |-> qr.r]

\* the quotient and the remainder of the limbs i down to 1 of a, after the
\* remainder r of the higher limbs, by d, for 0 < d < Radix
RECURSIVE DivSmallFrom(_, _, _, _)
DivSmallFrom(a, d, i, r) ==
    IF i = 0 THEN [q |-> <<>>, r |-> r]
    ELSE PushDigit(DivSmallFrom(a, d, i - 1, (r * Radix + a[i]) % d),
                   (r * Radix + a[i]) \div d)

\* a \div d, for 0 < d < Radix
QuotSmall(a, d) == Trim(DivSmallFrom(a, d, Len(a), 0).q)

RECURSIVE BitLenInt(_)
BitLenInt(v) == IF v = 0 THEN 0 ELSE 1 + BitLenInt(v \div 2)

\* the number of bits of a
BitLen(a) == IF a = <<>> THEN 0 ELSE LimbBits * (Len(a) - 1) + BitLenInt(a[Len(a)])

\* a * 2^n
ShiftLeft(a, n) ==
    IF n = 0 THEN a
    ELSE ShiftLimbs(MulSmall(a, Pow2(n % LimbBits)), n \div LimbBits)

\* a \div 2^n
ShiftRight(a, n) ==
    IF n \div LimbBits >= Len(a) THEN <<>>
    ELSE QuotSmall(SubSeq(a, (n \div LimbBits) + 1, Len(a)), Pow2(n % LimbBits))

\* bit n of a, for n < BitLen(a)
Bit(a, n) == (a[(n \div LimbBits) + 1] \div Pow2(n % LimbBits)) % 2

\* a % 2^n = 0
LowBitsZero(a, n) ==
    /\ \A i \in 1 .. (n \div LimbBits) : i > Len(a) \/ a[i] = 0
    /\ (n \div LimbBits) + 1 <= Len(a) => a[(n \div LimbBits) + 1] % Pow2(n % LimbBits) = 0

RECURSIVE TrailingZerosInt(_)
TrailingZerosInt(v) == IF v % 2 = 1 THEN 0 ELSE 1 + TrailingZerosInt(v \div 2)

RECURSIVE TrailingZerosFrom(_, _)
TrailingZerosFrom(a, i) ==
    IF a[i] = 0 THEN LimbBits + TrailingZerosFrom(a, i + 1)
    ELSE TrailingZerosInt(a[i])

\* the number of zero bits at the low end of a, for a > 0
TrailingZeros(a) == TrailingZerosFrom(a, 1)

\* the greatest q <= qhat with b * q <= rem
RECURSIVE DigitFit(_, _, _)
DigitFit(b, rem, qhat) ==
    IF Cmp(MulSmall(b, qhat), rem) <= 0 THEN qhat ELSE DigitFit(b, rem, qhat - 1)

\* the estimate of the next digit of a quotient by b from the top limbs of
\* the running remainder cur, for Len(cur) >= Len(b)
Estimate(b, cur) ==
    LET top == IF Len(cur) > Len(b) THEN cur[Len(b) + 1] * Radix + cur[Len(b)]
               ELSE cur[Len(b)]
    IN  IF top \div b[Len(b)] >= Radix THEN Radix - 1 ELSE top \div b[Len(b)]

RECURSIVE LongDivFrom(_, _, _, _)

\* the digit found, the division goes on with the remainder cur - b * digit
LongDivDigit(a, b, i, cur, digit) ==
    PushDigit(LongDivFrom(a, b, i - 1, Sub(cur, MulSmall(b, digit))), digit)

\* long division from limb i of a down, after the remainder rem of the
\* higher limbs; the top limb of b is at least Radix / 2
LongDivFrom(a, b, i, rem) ==
    IF i = 0 THEN [q |-> <<>>, r |-> rem]
    ELSE IF Len(Trim(<<a[i]>> \o rem)) < Len(b)
    THEN LongDivDigit(a, b, i, Trim(<<a[i]>> \o rem), 0)
    ELSE LongDivDigit(a, b, i, Trim(<<a[i]>> \o rem),
                      DigitFit(b, Trim(<<a[i]>> \o rem), Estimate(b, Trim(<<a[i]>> \o rem))))

SmallResult(qr) == [q |-> Trim(qr.q), exact |-> qr.r = 0]

LongResult(qr) == [q |-> Trim(qr.q), exact |-> qr.r = <<>>]

LongDiv(a, b) == LongResult(LongDivFrom(a, b, Len(a), <<>>))

\* the shift that brings the top limb of b to Radix / 2 or more
NormShift(b) == LimbBits - BitLenInt(b[Len(b)])

\* the quotient of a by b > 0, and whether the division is exact
DivMod(a, b) ==
    IF Len(b) = 1 THEN SmallResult(DivSmallFrom(a, b[1], Len(a), 0))
    ELSE LongDiv(ShiftLeft(a, NormShift(b)), ShiftLeft(b, NormShift(b)))

---------------------------------------------------------------------------
(* IEEE doubles.  A finite double is [sign, mant, exp], the number         *)
(* sign * mant * 2^exp with sign 1 or -1 and mant an odd natural of at     *)
(* most 53 bits; zero is [1, 0, 0].  Every operation gives the double      *)
(* nearest to the exact result, the one with the even mantissa of two      *)
(* equally near.  The exponents of the values of this program stay far     *)
(* inside the range of a double.                                           *)

MantissaBits == 53

Zero == [sign |-> 1, mant |-> <<>>, exp |-> 0]

\* the number NaN
NaN == [kind |-> "NaN"]

Infinity == [kind |-> "Infinity"]

\* sign * m * 2^e, the z zero bits at the low end of m moved to the exponent
Shifted(sign, m, e, z) ==
    [sign |-> sign, mant |-> IF z = 0 THEN m ELSE ShiftRight(m, z), exp |-> e + z]

\* sign * m * 2^e with the mantissa made odd
Canon(sign, m, e) ==
    IF m = <<>> THEN Zero ELSE Shifted(sign, m, e, TrailingZeros(m))

\* the bits kept of a mantissa, rounded: half is the first bit dropped, more
\* says that a lower one is set; of two equally near the even one
RoundKept(sign, kept, e, half, more) ==
    Canon(sign, IF half /\ (more \/ kept[1] % 2 = 1) THEN Add(kept, <<1>>) ELSE kept, e)

\* the double nearest to sign * m * 2^e, or to a number just above it in
\* magnitude when inexact (then m has more than MantissaBits + 1 bits)
RoundToDouble(sign, m, e, inexact) ==
    IF BitLen(m) <= MantissaBits THEN Canon(sign, m, e)
    ELSE RoundKept(sign, ShiftRight(m, BitLen(m) - MantissaBits),
                   e + BitLen(m) - MantissaBits,
                   Bit(m, BitLen(m) - MantissaBits - 1) = 1,
                   inexact \/ ~LowBitsZero(m, BitLen(m) - MantissaBits - 1))

\* the double of an integer
Number(i) == IF i < 0 THEN Canon(-1, Limbs(-i), 0) ELSE Canon(1, Limbs(i), 0)

Neg(x) == IF x.mant = <<>> THEN x ELSE [x EXCEPT !.sign = -x.sign]

\* sx * a * 2^e + sy * b * 2^e
AddAligned(sx, a, sy, b, e) ==
    IF sx = sy THEN RoundToDouble(sx, Add(a, b), e, FALSE)
    ELSE IF Cmp(a, b) = 0 THEN Zero
    ELSE IF Cmp(a, b) > 0 THEN RoundToDouble(sx, Sub(a, b), e, FALSE)
    ELSE RoundToDouble(sy, Sub(b, a), e, FALSE)

Lesser(i, j) == IF i < j THEN i ELSE j

\* x + y
fAdd(x, y) ==
    IF x.mant = <<>> THEN y
    ELSE IF y.mant = <<>> THEN x
    ELSE AddAligned(x.sign, ShiftLeft(x.mant, x.exp - Lesser(x.exp, y.exp)),
                    y.sign, ShiftLeft(y.mant, y.exp - Lesser(x.exp, y.exp)),
                    Lesser(x.exp, y.exp))

\* x - y
fSub(x, y) == fAdd(x, Neg(y))

\* x * y
fMul(x, y) ==
    IF x.mant = <<>> \/ y.mant = <<>> THEN Zero
    ELSE RoundToDouble(x.sign * y.sign, Mul(x.mant, y.mant), x.exp + y.exp, FALSE)

\* the bits by which the mantissa of x is shifted for the quotient by the
\* mantissa of y to have at least MantissaBits + 2 bits
Scale(x, y) ==
    IF MantissaBits + 2 + BitLen(y.mant) - BitLen(x.mant) > 0
    THEN MantissaBits + 2 + BitLen(y.mant) - BitLen(x.mant)
    ELSE 0

Quotient(sign, qe, e) == RoundToDouble(sign, qe.q, e, ~qe.exact)

\* x / y, for y # 0
fDiv(x, y) ==
    IF x.mant = <<>> THEN Zero
    ELSE IF y.mant = <<1>> THEN [x EXCEPT !.sign = x.sign * y.sign, !.exp = x.exp - y.exp]
    ELSE Quotient(x.sign * y.sign, DivMod(ShiftLeft(x.mant, Scale(x, y)), y.mant),
                  x.exp - Scale(x, y) - y.exp)

\* -1, 0, 1 as x < y, x = y, x > y
fCmp(x, y) ==
    IF x = y THEN 0
    ELSE IF x.mant = <<>> THEN -y.sign
    ELSE IF y.mant = <<>> THEN x.sign
    ELSE IF x.sign # y.sign THEN x.sign
    ELSE IF BitLen(x.mant) + x.exp < BitLen(y.mant) + y.exp THEN -x.sign
    ELSE IF BitLen(x.mant) + x.exp > BitLen(y.mant) + y.exp THEN x.sign
    ELSE x.sign * Cmp(ShiftLeft(x.mant, x.exp - Lesser(x.exp, y.exp)),
                      ShiftLeft(y.mant, y.exp - Lesser(x.exp, y.exp)))

\* x < y and x > y: false when either is NaN
fLt(x, y) ==
    /\ x # NaN /\ y # NaN /\ x # Infinity
    /\ (y = Infinity \/ fCmp(x, y) < 0)

fGt(x, y) == fLt(y, x)

fMax(x, y) == IF fCmp(x, y) >= 0 THEN x ELSE y

fMin(x, y) == IF fCmp(x, y) <= 0 THEN x ELSE y

\* the double a decimal literal num/den denotes
Literal(num, den) == fDiv(Number(num), Number(den))

\* the literals of the code
Lit02 == Literal(2, 10)

Lit03 == Literal(3, 10)

Lit04 == Literal(4, 10)

Lit05 == Literal(5, 10)

Lit07 == Literal(7, 10)

Lit08 == Literal(8, 10)

One == Number(1)

Two == Number(2)

Four == Number(4)

Six == Number(6)

Lit255 == Number(255)

Lit360 == Number(360)

---------------------------------------------------------------------------
(* Math *)

\* Math.round truncating toward minus infinity
MathFloor(num, den) == IF den = 0 THEN NaN ELSE num \div den

\* Math.round of the double nearest to num/den: floor(x + 0.5); NaN for an
\* undefined value (den = 0).  The double lies on the same side of every
\* half-integer as num/den does.
MathRound(num, den) == IF den = 0 THEN NaN ELSE (2 * num + den) \div (2 * den)

\* Math.max and Math.min of three doubles
Max3(a, b, c) == fMax(fMax(a, b), c)

Min3(a, b, c) == fMin(fMin(a, b), c)

---------------------------------------------------------------------------
(* colorUtils.ts: conversions *)

HexDigits == <<"0", "1", "2", "3", "4", "5", "6", "7", "8", "9",
               "a", "b", "c", "d", "e", "f">>

\* Number.prototype.toString(16) of an integer
RECURSIVE toString16(_)
toString16(v) ==
    IF v < 0 THEN "-" \o toString16(-v)
    ELSE IF v < 16 THEN HexDigits[v + 1]
    ELSE toString16(v \div 16) \o HexDigits[(v % 16) + 1]

\* toHex of the channel num/den; NaN.toString(16) is "NaN"
toHex(num, den) ==
    IF den = 0 THEN "NaN"
    ELSE LET hex == toString16(MathRound(num, den))
         IN  IF Len(hex) = 1 THEN "0" \o hex ELSE hex

rgbToHex(c) == "#" \o toHex(c.r, c.n) \o toHex(c.g, c.n) \o toHex(c.b, c.n)

\* the double of the channel num/den of an RGB value
Channel(num, den) == fDiv(Number(num), Number(den))

\* rgbToHsl from `if (max !== min)` on, for max !== min; d = max - min
hslChromatic(r, g, b, max, min, l, d) ==
    [h |-> fMul(fDiv(IF max = r
                     THEN fAdd(fDiv(fSub(g, b), d), IF fLt(g, b) THEN Six ELSE Zero)
                     ELSE IF max = g THEN fAdd(fDiv(fSub(b, r), d), Two)
                     ELSE fAdd(fDiv(fSub(r, g), d), Four),
                     Six),
                Lit360),
     s |-> IF fGt(l, Lit05)
           THEN fDiv(d, fSub(fSub(Two, max), min))
           ELSE fDiv(d, fAdd(max, min)),
     l |-> l]

\* rgbToHsl from `const l` on
hslOfRange(r, g, b, max, min) ==
    IF max # min
    THEN hslChromatic(r, g, b, max, min, fDiv(fAdd(max, min), Two), fSub(max, min))
    ELSE [h |-> Zero, s |-> Zero, l |-> fDiv(fAdd(max, min), Two)]

\* rgbToHsl after the divisions by 255
hslOfUnit(r, g, b) == hslOfRange(r, g, b, Max3(r, g, b), Min3(r, g, b))

\* rgbToHsl of the RGB value c.  With undefined channels (n = 0) max, min
\* and l are NaN, max !== min holds, s is NaN, no case of the switch matches
\* and h stays 0.
rgbToHsl(c) ==
    IF c.n = 0 THEN [h |-> Zero, s |-> NaN, l |-> NaN]
    ELSE hslOfUnit(fDiv(Channel(c.r, c.n), Lit255),
                   fDiv(Channel(c.g, c.n), Lit255),
                   fDiv(Channel(c.b, c.n), Lit255))

\* x ** 2: the rounded product x * x
Square(x) == fMul(x, x)

\* the numbers the RGB value c holds: the doubles nearest to r/n, g/n and
\* b/n, NaN for undefined channels (n = 0)
Numbers(c) ==
    IF c.n = 0 THEN [r |-> NaN, g |-> NaN, b |-> NaN]
    ELSE [r |-> Channel(c.r, c.n), g |-> Channel(c.g, c.n), b |-> Channel(c.b, c.n)]

\* colorDistanceSq(c1, c2) of the numbers of two RGB values; NaN when a
\* channel is NaN
colorDistanceSq(c1, c2) ==
    IF c1.r = NaN \/ c2.r = NaN THEN NaN
    ELSE fAdd(fAdd(Square(fSub(c1.r, c2.r)), Square(fSub(c1.g, c2.g))),
              Square(fSub(c1.b, c2.b)))

\* dist < minDist, where minDist is Infinity or a distance; false for NaN
DistLess(dist, minDist) == fLt(dist, minDist)

---------------------------------------------------------------------------
(* colorUtils.ts: quantizeColors *)

maxIterations == 5

AlphaThreshold == 128

Undefined == [r |-> 0, g |-> 0, b |-> 0, n |-> 0]

pixelCount(px) == Len(px)

\* Math.floor(Math.random() * pixelCount): the pixel numbers (0-based) it can give
RandomPixels(px) == IF pixelCount(px) = 0 THEN {0} ELSE 0 .. (pixelCount(px) - 1)

\* centroids.push({ r: pixels[idx], g: pixels[idx + 1], b: pixels[idx + 2] })
SampledCentroid(px, i) ==
    IF i + 1 <= Len(px)
    THEN [r |-> px[i + 1].r, g |-> px[i + 1].g, b |-> px[i + 1].b, n |-> 1]
    ELSE Undefined

\* const p: RGB = { r: pixels[idx], g: pixels[idx + 1], b: pixels[idx + 2] }
RGBAt(p) == [r |-> Number(p.r), g |-> Number(p.g), b |-> Number(p.b)]

\* the numbers the centroids c on hold
RECURSIVE NumbersFrom(_, _)
NumbersFrom(cents, c) ==
    IF c > Len(cents) THEN <<>>
    ELSE <<Numbers(cents[c])>> \o NumbersFrom(cents, c + 1)

RECURSIVE NearestFrom(_, _, _, _, _)

\* the body of the inner loop of the E-step, for the centroid c at distance dist
NearestStep(p, cents, c, minDist, clusterIndex, dist) ==
    IF DistLess(dist, minDist)
    THEN NearestFrom(p, cents, c + 1, dist, c)
    ELSE NearestFrom(p, cents, c + 1, minDist, clusterIndex)

\* the inner loop of the E-step: the scan over c with minDist and
\* clusterIndex; p and cents are the numbers of the pixel and the centroids
NearestFrom(p, cents, c, minDist, clusterIndex) ==
    IF c > Len(cents) THEN clusterIndex
    ELSE NearestStep(p, cents, c, minDist, clusterIndex, colorDistanceSq(p, cents[c]))

Nearest(p, cents) == NearestFrom(p, cents, 1, Infinity, 1)

\* Skipped with the threshold one too low
SkippedBelow127(p) == p.a < AlphaThreshold - 1

\* Skipped with no pixel skipped
SkippedNever(p) == FALSE

\* Skip transparent pixels
Skipped(p) == p.a < AlphaThreshold

\* the pixel p added to the accumulators acc = [sums, counts] of the cluster
\* ci.  For k = 0 clusterIndex stays 0, and a write past the end of a typed
\* array is ignored.
Accumulate(acc, p, ci) ==
    IF ci \notin DOMAIN acc.counts THEN acc
    ELSE [sums   |-> [acc.sums EXCEPT ![ci] =
                         [r |-> @.r + p.r, g |-> @.g + p.g, b |-> @.b + p.b]],
          counts |-> [acc.counts EXCEPT ![ci] = @ + 1]]

\* the E-step from pixel i on, acc = [sums, counts]
RECURSIVE EStepFrom(_, _, _, _)
EStepFrom(px, cents, i, acc) ==
    IF i > Len(px) THEN acc
    ELSE IF Skipped(px[i]) THEN EStepFrom(px, cents, i + 1, acc)
    ELSE EStepFrom(px, cents, i + 1, Accumulate(acc, px[i], Nearest(RGBAt(px[i]), cents)))

\* clusterSums.fill(0); clusterCounts.fill(0); then the E-step
EStep(px, cents) ==
    EStepFrom(px, NumbersFrom(cents, 1), 1,
        [sums   |-> [c \in 1 .. Len(cents) |-> [r |-> 0, g |-> 0, b |-> 0]],
         counts |-> [c \in 1 .. Len(cents) |-> 0]])

\* Mean without the division by the count
MeanNotDivided(sum, count) == [r |-> sum.r, g |-> sum.g, b |-> sum.b, n |-> 1]

\* the new centroid of a cluster with count > 0: the mean, sums / count
Mean(sum, count) == [r |-> sum.r, g |-> sum.g, b |-> sum.b, n |-> count]

\* MStep with the centroid of an empty cluster reset to zero
MStepResetEmpty(cents, sums, counts) ==
    [c \in 1 .. Len(cents) |->
        IF counts[c] > 0 THEN Mean(sums[c], counts[c])
        ELSE [r |-> 0, g |-> 0, b |-> 0, n |-> 1]]

\* the M-step
MStep(cents, sums, counts) ==
    [c \in 1 .. Len(cents) |->
        IF counts[c] > 0 THEN Mean(sums[c], counts[c]) ELSE cents[c]]

\* the PaletteColor of the centroid c, hsl being rgbToHsl(c)
PaletteColorOf(c, count, hsl) ==
    [rgb |-> [r |-> MathRound(c.r, c.n), g |-> MathRound(c.g, c.n),
              b |-> MathRound(c.b, c.n)],
     hsl |-> hsl,
     hex |-> rgbToHex(c),
     population |-> count,
     score |-> count,
     isVibrant |-> /\ fGt(hsl.s, Lit05)
                   /\ fGt(hsl.l, Lit03)
                   /\ fLt(hsl.l, Lit08),
     isDark |-> fLt(hsl.l, Lit04),
     isLight |-> fGt(hsl.l, Lit07)]

\* one centroid converted to a PaletteColor (population = count > 0)
ToPaletteColor(c, count) == PaletteColorOf(c, count, rgbToHsl(c))

\* Survives with no cluster filtered out
SurvivesAlways(count) == TRUE

\* the cluster survives the filter
Survives(count) == count # 0

\* .map(...).filter(c => c !== null), from centroid i on
RECURSIVE MapFilterFrom(_, _, _)
MapFilterFrom(cents, counts, i) ==
    IF i > Len(cents) THEN <<>>
    ELSE IF Survives(counts[i])
         THEN <<ToPaletteColor(cents[i], counts[i])>> \o MapFilterFrom(cents, counts, i + 1)
         ELSE MapFilterFrom(cents, counts, i + 1)

MapFilter(cents, counts) == MapFilterFrom(cents, counts, 1)

\* the comparator of the sort: (a, b) => b.population - a.population
compare(a, b) == b.population - a.population

\* Insert with x put before the elements that compare equal to it
RECURSIVE InsertBeforeEqual(_, _)
InsertBeforeEqual(x, s) ==
    IF s = <<>> THEN <<x>>
    ELSE IF compare(x, Head(s)) <= 0 THEN <<x>> \o s
    ELSE <<Head(s)>> \o InsertBeforeEqual(x, Tail(s))

\* x inserted into a sorted sequence after every element it does not precede
RECURSIVE Insert(_, _)
Insert(x, s) ==
    IF s = <<>> THEN <<x>>
    ELSE IF compare(x, Head(s)) < 0 THEN <<x>> \o s
    ELSE <<Head(s)>> \o Insert(x, Tail(s))

\* Array.prototype.sort with the comparator: a stable sort
RECURSIVE sort(_)
sort(s) ==
    IF s = <<>> THEN <<>>
    ELSE Insert(s[Len(s)], sort(SubSeq(s, 1, Len(s) - 1)))

---------------------------------------------------------------------------
(* skiaService.ts: processImage, step 6 (Identify Roles) *)

null == [kind |-> "null"]

undefined == [kind |-> "undefined"]

\* the value of an expression whose evaluation throws a TypeError
TypeError == [kind |-> "TypeError"]

\* the k that processImage passes to quantizeColors
QuantizeK == 8

\* colors[i] of the code (0-based): undefined past the end
At(cs, i) == IF i + 1 <= Len(cs) THEN cs[i + 1] ELSE undefined

\* c.population / (dominant.population || 1)
popRatio(c, dominant) ==
    fDiv(Number(c.population),
         Number(IF dominant.population # 0 THEN dominant.population ELSE 1))

\* sat * (1 + popRatio * 0.5)
vibrantScore(c, dominant) ==
    fMul(c.hsl.s, fAdd(One, fMul(popRatio(c, dominant), Lit05)))

\* sat > 0.3 && lum > 0.3 && lum < 0.8
VibrantEligible(c) ==
    /\ fGt(c.hsl.s, Lit03)
    /\ fGt(c.hsl.l, Lit03)
    /\ fLt(c.hsl.l, Lit08)

\* lum < 0.4 && sat > 0.2
DarkEligible(c) == fLt(c.hsl.l, Lit04) /\ fGt(c.hsl.s, Lit02)

\* lum > 0.7 && sat > 0.2
LightEligible(c) == fGt(c.hsl.l, Lit07) /\ fGt(c.hsl.s, Lit02)

\* sat < 0.3 && lum > 0.2 && lum < 0.8
MutedEligible(c) ==
    /\ fLt(c.hsl.s, Lit03)
    /\ fGt(c.hsl.l, Lit02)
    /\ fLt(c.hsl.l, Lit08)

\* BetterScore with >= for >
BetterOrEqualScore(score, maxVibrantScore) == ~fLt(score, maxVibrantScore)

\* if (score > maxVibrantScore)
BetterScore(score, maxVibrantScore) == fGt(score, maxVibrantScore)

\* MorePopulated with >= for >
MoreOrEquallyPopulated(c, role) ==
    IF role = null \/ c.population >= role.population THEN c ELSE role

\* if (!role || c.population > role.population) role = c
MorePopulated(c, role) ==
    IF role = null \/ c.population > role.population THEN c ELSE role

\* the body of colors.forEach for the colour c, on the accumulators acc;
\* takes says that c becomes bestVibrant, with the score
VisitTaking(c, acc, score, takes) ==
    [bestVibrant     |-> IF takes THEN c ELSE acc.bestVibrant,
     maxVibrantScore |-> IF takes THEN score ELSE acc.maxVibrantScore,
     darkVibrant     |-> IF DarkEligible(c) THEN MorePopulated(c, acc.darkVibrant)
                         ELSE acc.darkVibrant,
     lightVibrant    |-> IF LightEligible(c) THEN MorePopulated(c, acc.lightVibrant)
                         ELSE acc.lightVibrant,
     muted           |-> IF MutedEligible(c) THEN MorePopulated(c, acc.muted)
                         ELSE acc.muted]

VisitScored(c, acc, score) ==
    VisitTaking(c, acc, score,
                VibrantEligible(c) /\ BetterScore(score, acc.maxVibrantScore))

Visit(c, dominant, acc) == VisitScored(c, acc, vibrantScore(c, dominant))

RECURSIVE forEachFrom(_, _, _, _)
forEachFrom(cs, dominant, i, acc) ==
    IF i > Len(cs) THEN acc
    ELSE forEachFrom(cs, dominant, i + 1, Visit(cs[i], dominant, acc))

forEach(cs, dominant) ==
    forEachFrom(cs, dominant, 1,
        [bestVibrant |-> null, maxVibrantScore |-> Number(-1),
         darkVibrant |-> null, lightVibrant |-> null, muted |-> null])

\* Fallback reading dominant?.isVibrant: no TypeError for an undefined dominant
FallbackOptional(bestVibrant, dominant, cs) ==
    IF bestVibrant # null THEN bestVibrant
    ELSE IF dominant # undefined /\ dominant.isVibrant THEN dominant
    ELSE IF At(cs, 1) # undefined THEN At(cs, 1)
    ELSE dominant

\* if (!bestVibrant) bestVibrant = dominant.isVibrant ? dominant : (colors[1] || dominant);
\* reading dominant.isVibrant of an undefined dominant throws a TypeError
Fallback(bestVibrant, dominant, cs) ==
    IF bestVibrant # null THEN bestVibrant
    ELSE IF dominant = undefined THEN TypeError
    ELSE IF dominant.isVibrant THEN dominant
    ELSE IF At(cs, 1) # undefined THEN At(cs, 1)
    ELSE dominant

\* PaletteOf with dominant in the place of every role left null
PaletteFilled(cs, dominant, acc) ==
    IF Fallback(acc.bestVibrant, dominant, cs) = TypeError THEN TypeError
    ELSE [dominant     |-> dominant,
          vibrant      |-> Fallback(acc.bestVibrant, dominant, cs),
          muted        |-> IF acc.muted = null THEN dominant ELSE acc.muted,
          darkVibrant  |-> IF acc.darkVibrant = null THEN dominant ELSE acc.darkVibrant,
          lightVibrant |-> IF acc.lightVibrant = null THEN dominant ELSE acc.lightVibrant,
          allColors    |-> cs]

\* the fallback and the Palette returned, after the forEach left acc
PaletteOf(cs, dominant, acc) ==
    IF Fallback(acc.bestVibrant, dominant, cs) = TypeError THEN TypeError
    ELSE [dominant     |-> dominant,
          vibrant      |-> Fallback(acc.bestVibrant, dominant, cs),
          muted        |-> acc.muted,
          darkVibrant  |-> acc.darkVibrant,
          lightVibrant |-> acc.lightVibrant,
          allColors    |-> cs]

\* the Palette that step 6 returns for the colours cs, or TypeError
IdentifyRoles(cs) == PaletteOf(cs, At(cs, 0), forEach(cs, At(cs, 0)))

---------------------------------------------------------------------------
(* The pipeline: quantizeColors(pixels, k), then the role identification   *)
(* of processImage on the sequence it returned.  processImage passes       *)
(* k = QuantizeK; a run with a smaller k >= 1 returns what the run with    *)
(* QuantizeK does when the further centroids repeat the first one (a       *)
(* repeated centroid never wins the scan and keeps count 0).               *)

\* the variables of rgbToHex, of the App and of SkiaService.init while
\* another part of the program is followed
HexIdle == rgbArg = Undefined /\ hexString = ""

AppIdle ==
    /\ imageUrl = ""
    /\ inputUrl = ""
    /\ appPalette = null
    /\ status = "idle"
    /\ mount = "done"
    /\ calls = <<>>

\* SkiaService as constructed, init() not called
SkiaIdle ==
    /\ isLoaded = FALSE
    /\ loadPromise = "null"
    /\ scriptLoaded = FALSE
    /\ interval = FALSE
    /\ checks = 0
    /\ engine = "none"
    /\ invocations = 0
    /\ callers = <<>>

QuantIdle ==
    /\ pixels = <<>>
    /\ k = QuantizeK
    /\ centroids = <<>>
    /\ clusterSums = <<>>
    /\ clusterCounts = <<>>
    /\ iter = 0
    /\ colors = <<>>
    /\ palette = null
    /\ error = "none"
    /\ pc = "idle"

Init ==
    /\ HexIdle /\ AppIdle /\ SkiaIdle
    /\ pixels \in SeqsUpTo(PixelValues, MaxPixels)
    /\ k \in KValues
    /\ centroids = <<>>
    /\ clusterSums = <<>>
    /\ clusterCounts = <<>>
    /\ iter = 0
    /\ colors = <<>>
    /\ palette = null
    /\ error = "none"
    /\ pc = "sample"

\* lines 57-72: the random centroids, then the allocation of the accumulators;
\* new Float64Array(k * 3) throws a RangeError for a negative length
Sample ==
    /\ pc = "sample"
    /\ \E choice \in [1 .. k -> RandomPixels(pixels)] :
          centroids' = [c \in 1 .. k |-> SampledCentroid(pixels, choice[c])]
    /\ IF k < 0
       THEN /\ error' = "RangeError"
            /\ pc' = "threw"
            /\ UNCHANGED <<clusterSums, clusterCounts>>
       ELSE /\ clusterSums' = [c \in 1 .. k |-> [r |-> 0, g |-> 0, b |-> 0]]
            /\ clusterCounts' = [c \in 1 .. k |-> 0]
            /\ pc' = "iterate"
            /\ UNCHANGED error
    /\ UNCHANGED <<pixels, k, iter, colors, palette>>
    /\ UNCHANGED <<hexVars, appVars, skiaVars>>

\* the E-step having left acc = [sums, counts], the M-step
Accumulated(acc) ==
    /\ clusterSums' = acc.sums
    /\ clusterCounts' = acc.counts
    /\ centroids' = MStep(centroids, acc.sums, acc.counts)

\* lines 76-119: one iteration, the E-step and the M-step
Iterate ==
    /\ pc = "iterate"
    /\ iter < maxIterations
    /\ Accumulated(EStep(pixels, centroids))
    /\ iter' = iter + 1
    /\ UNCHANGED <<pixels, k, colors, palette, error, pc>>
    /\ UNCHANGED <<hexVars, appVars, skiaVars>>

\* lines 122-144: the centroids converted, filtered and sorted
Materialize ==
    /\ pc = "iterate"
    /\ iter = maxIterations
    /\ colors' = sort(MapFilter(centroids, clusterCounts))
    /\ pc' = "quantized"
    /\ UNCHANGED <<pixels, k, centroids, clusterSums, clusterCounts, iter, palette, error>>
    /\ UNCHANGED <<hexVars, appVars, skiaVars>>

\* processImage returns the Palette p, or rejects with the TypeError
Returns(p) ==
    IF p = TypeError
    THEN /\ error' = "TypeError"
         /\ pc' = "threw"
         /\ UNCHANGED palette
    ELSE /\ palette' = p
         /\ pc' = "done"
         /\ UNCHANGED error

\* skiaService.ts lines 125-183: the roles, on the colours returned
Classify ==
    /\ pc = "quantized"
    /\ Returns(IdentifyRoles(colors))
    /\ UNCHANGED <<pixels, k, centroids, clusterSums, clusterCounts, iter, colors>>
    /\ UNCHANGED <<hexVars, appVars, skiaVars>>

Next == Sample \/ Iterate \/ Materialize \/ Classify

Spec == Init /\ [][Next]_vars

---------------------------------------------------------------------------
(* The role identification alone, on every sequence quantizeColors can     *)
(* return within the bounds: clusters of the colours below, at most        *)
(* MaxColors of them, populations 1 .. MaxPop, ordered by population.      *)

ClassifierColours ==
    { [r |-> 255, g |-> 0, b |-> 0, n |-> 1],        \* vibrant
      [r |-> 0, g |-> 0, b |-> 255, n |-> 1],        \* vibrant, the same saturation
      [r |-> 170, g |-> 90, b |-> 90, n |-> 1],      \* eligible for vibrant, not isVibrant
      [r |-> 150, g |-> 30, b |-> 30, n |-> 1],      \* vibrant and dark
      [r |-> 60, g |-> 18, b |-> 18, n |-> 1],       \* dark, saturated
      [r |-> 240, g |-> 200, b |-> 200, n |-> 1],    \* light, saturated
      [r |-> 128, g |-> 128, b |-> 128, n |-> 1],    \* grey
      [r |-> 255, g |-> 255, b |-> 255, n |-> 1] }   \* white: eligible for no role

Clusters ==
    { ToPaletteColor(c, pop) : c \in ClassifierColours, pop \in 1 .. MaxPop }

Descending(cs) ==
    \A i \in 1 .. Len(cs) - 1 : cs[i].population >= cs[i + 1].population

InitClassify ==
    /\ HexIdle /\ AppIdle /\ SkiaIdle
    /\ colors \in { cs \in SeqsUpTo(Clusters, MaxColors) : Descending(cs) }
    /\ pixels = <<>>
    /\ k = QuantizeK
    /\ centroids = <<>>
    /\ clusterSums = <<>>
    /\ clusterCounts = <<>>
    /\ iter = maxIterations
    /\ palette = null
    /\ error = "none"
    /\ pc = "quantized"

NextClassify == Classify

SpecClassify == InitClassify /\ [][NextClassify]_vars

---------------------------------------------------------------------------
(* rgbToHex alone, on RGB values in and out of the range 0 .. 255, whole   *)
(* and halves.                                                             *)

HexChannels == {-3, -1, 0, 9, 31, 255, 256, 511, 512}

HexInputs ==
    { [r |-> r, g |-> g, b |-> b, n |-> n] :
          r \in HexChannels, g \in HexChannels, b \in HexChannels, n \in {1, 2} }

InitHex ==
    /\ QuantIdle /\ AppIdle /\ SkiaIdle
    /\ rgbArg \in HexInputs
    /\ hexString = ""

\* the call rgbToHex(rgb)
CallRgbToHex ==
    /\ hexString = ""
    /\ hexString' = rgbToHex(rgbArg)
    /\ UNCHANGED <<rgbArg, quantVars, appVars, skiaVars>>

NextHex == CallRgbToHex

SpecHex == InitHex /\ [][NextHex]_vars

---------------------------------------------------------------------------
(* SkiaService.init and initCanvasKit.  The script that defines            *)
(* CanvasKitInit loads at any time or never, and the promise CanvasKitInit *)
(* returns settles either way; loadPromise is settled in a later           *)
(* microtask.  callers records what each call of init() found.             *)

\* } else if (checks > 50) {
MaxChecks == 50

\* SharesPromise for a pending promise only: a settled one is replaced
SharesPending(lp) == lp = "pending"

\* if (this.loadPromise) return this.loadPromise;
SharesPromise(lp) == lp # "null"

\* initCanvasKit() up to its await: CanvasKitInit is invoked
initCanvasKit ==
    /\ invocations' = invocations + 1
    /\ engine' = "pending"

\* the body of init(): lines 15-42, called by `by`
init(by) ==
    IF isLoaded
    THEN /\ callers' = Append(callers, [by |-> by, found |-> "loaded", promise |-> loadPromise])
         /\ UNCHANGED <<loadPromise, interval, checks, engine, invocations>>
    ELSE IF SharesPromise(loadPromise)
    THEN /\ callers' = Append(callers, [by |-> by, found |-> "shared", promise |-> loadPromise])
         /\ UNCHANGED <<loadPromise, interval, checks, engine, invocations>>
    ELSE /\ callers' = Append(callers, [by |-> by, found |-> "created", promise |-> "pending"])
         /\ loadPromise' = "pending"
         /\ IF ~scriptLoaded
            THEN /\ interval' = TRUE
                 /\ checks' = 0
                 /\ UNCHANGED <<engine, invocations>>
            ELSE /\ initCanvasKit
                 /\ UNCHANGED <<interval, checks>>

\* the script that defines CanvasKitInit has loaded
ScriptLoads ==
    /\ ~scriptLoaded
    /\ scriptLoaded' = TRUE
    /\ UNCHANGED <<isLoaded, loadPromise, interval, checks, engine, invocations, callers>>
    /\ UNCHANGED <<quantVars, hexVars, appVars>>

\* the callback of setInterval: lines 23-32
IntervalTick ==
    /\ interval
    /\ checks' = checks + 1
    /\ IF scriptLoaded
       THEN /\ interval' = FALSE
            /\ initCanvasKit
            /\ UNCHANGED loadPromise
       ELSE IF checks' > MaxChecks
       THEN /\ interval' = FALSE
            /\ loadPromise' = "rejected"
            /\ UNCHANGED <<engine, invocations>>
       ELSE UNCHANGED <<interval, loadPromise, engine, invocations>>
    /\ UNCHANGED <<isLoaded, scriptLoaded, callers>>
    /\ UNCHANGED <<quantVars, hexVars, appVars>>

\* CanvasKitInit resolved: the continuation of initCanvasKit, lines 46-50
EngineResolves ==
    /\ engine = "pending"
    /\ engine' = "resolved"
    /\ isLoaded' = TRUE
    /\ UNCHANGED <<loadPromise, scriptLoaded, interval, checks, invocations, callers>>
    /\ UNCHANGED <<quantVars, hexVars, appVars>>

\* a later microtask: resolve of loadPromise (lines 27 and 35)
ResolveLoad ==
    /\ engine = "resolved"
    /\ loadPromise = "pending"
    /\ loadPromise' = "resolved"
    /\ UNCHANGED <<isLoaded, scriptLoaded, interval, checks, engine, invocations, callers>>
    /\ UNCHANGED <<quantVars, hexVars, appVars>>

\* CanvasKitInit rejected: initCanvasKit throws at its await, line 46
EngineRejects ==
    /\ engine = "pending"
    /\ engine' = "rejected"
    /\ UNCHANGED <<isLoaded, loadPromise, scriptLoaded, interval, checks, invocations, callers>>
    /\ UNCHANGED <<quantVars, hexVars, appVars>>

\* a later microtask: reject of loadPromise (lines 27 and 37-39)
RejectLoad ==
    /\ engine = "rejected"
    /\ loadPromise = "pending"
    /\ loadPromise' = "rejected"
    /\ UNCHANGED <<isLoaded, scriptLoaded, interval, checks, engine, invocations, callers>>
    /\ UNCHANGED <<quantVars, hexVars, appVars>>

---------------------------------------------------------------------------
(* The App component on the SkiaService: the mount effect, the form, the   *)
(* sample buttons and handleExtract.  The mount effect calls               *)
(* skiaService.init(), and each handleExtract that gets past its delay     *)
(* calls skiaService.processImage(url), which calls init() when the engine *)
(* is not loaded.  Once the engine is loaded processImage(url) settles     *)
(* either way; the Palette it computes for a url is Result(url).  At most  *)
(* MaxCalls calls of handleExtract get past its first line.                *)

SAMPLE_IMAGES == <<"sample0", "sample1", "sample2">>

\* what the user can type into the url field
TypedUrls == {"", "typed"}

\* the Palette that skiaService.processImage(url) resolves to
Result(url) == [of |-> url]

InitApp ==
    /\ QuantIdle /\ HexIdle
    /\ imageUrl = SAMPLE_IMAGES[1]
    /\ inputUrl = SAMPLE_IMAGES[1]
    /\ appPalette = null
    /\ status = "idle"
    /\ mount = "pending"
    /\ calls = <<>>
    /\ isLoaded = FALSE
    /\ loadPromise = "null"
    /\ scriptLoaded \in BOOLEAN
    /\ interval = FALSE
    /\ checks = 0
    /\ engine = "none"
    /\ invocations = 0
    /\ callers = <<>>

\* handleExtract(url) up to its first await: lines 188-197
handleExtract(url) ==
    IF url = ""
    THEN UNCHANGED <<appPalette, imageUrl, status, calls>>
    ELSE /\ appPalette' = null
         /\ imageUrl' = url
         /\ status' = "processing"
         /\ calls' = Append(calls, [url |-> url, at |-> "delay"])

\* the effect on mount: lines 173-175, with the call of skiaService.init()
Mount ==
    /\ mount = "pending"
    /\ status' = "loading_skia"
    /\ mount' = "init"
    /\ init("init")
    /\ UNCHANGED <<imageUrl, inputUrl, appPalette, calls>>
    /\ UNCHANGED <<isLoaded, scriptLoaded>>
    /\ UNCHANGED <<quantVars, hexVars>>

\* the promise of skiaService.init() resolved: lines 176-180
InitThen ==
    /\ mount = "init"
    /\ loadPromise = "resolved"
    /\ Len(calls) < MaxCalls
    /\ mount' = "done"
    /\ appPalette' = null
    /\ imageUrl' = SAMPLE_IMAGES[1]
    /\ status' = "processing"
    /\ calls' = Append(calls, [url |-> SAMPLE_IMAGES[1], at |-> "delay"])
    /\ UNCHANGED inputUrl
    /\ UNCHANGED <<quantVars, hexVars, skiaVars>>

\* the promise of skiaService.init() rejected: lines 181-183
InitCatch ==
    /\ mount = "init"
    /\ loadPromise = "rejected"
    /\ mount' = "failed"
    /\ status' = "error"
    /\ UNCHANGED <<imageUrl, inputUrl, appPalette, calls>>
    /\ UNCHANGED <<quantVars, hexVars, skiaVars>>

\* the url field changed: line 258
ChangeInput ==
    /\ mount # "pending"
    /\ \E u \in TypedUrls : inputUrl' = u /\ u # inputUrl
    /\ UNCHANGED <<imageUrl, appPalette, status, mount, calls>>
    /\ UNCHANGED <<quantVars, hexVars, skiaVars>>

\* the form submitted: lines 215-218; the submit button is disabled while
\* the status is processing or loading_skia (line 264)
Submit ==
    /\ mount # "pending"
    /\ status \notin {"processing", "loading_skia"}
    /\ inputUrl # ""
    /\ Len(calls) < MaxCalls
    /\ handleExtract(inputUrl)
    /\ UNCHANGED <<inputUrl, mount>>
    /\ UNCHANGED <<quantVars, hexVars, skiaVars>>

\* the form submitted with an empty url: handleExtract returns at line 188
SubmitEmpty ==
    /\ mount # "pending"
    /\ status \notin {"processing", "loading_skia"}
    /\ inputUrl = ""
    /\ handleExtract(inputUrl)
    /\ UNCHANGED <<inputUrl, mount>>
    /\ UNCHANGED <<quantVars, hexVars, skiaVars>>

\* a sample button clicked: lines 279-282; the buttons are never disabled
ClickSample ==
    /\ mount # "pending"
    /\ Len(calls) < MaxCalls
    /\ \E i \in 1 .. Len(SAMPLE_IMAGES) :
          /\ inputUrl' = SAMPLE_IMAGES[i]
          /\ handleExtract(SAMPLE_IMAGES[i])
    /\ UNCHANGED mount
    /\ UNCHANGED <<quantVars, hexVars, skiaVars>>

\* processImage, line 54: if (!this.isLoaded) await this.init(); the call c
\* of handleExtract waits for init() or goes on to the fetch
processImage(c) ==
    IF isLoaded
    THEN /\ calls' = [calls EXCEPT ![c].at = "processing"]
         /\ UNCHANGED <<loadPromise, interval, checks, engine, invocations, callers>>
    ELSE /\ calls' = [calls EXCEPT ![c].at = "init"]
         /\ init("processImage")

\* the 100 ms timer of a call fired: processImage(url) is called, lines 197-200
TimerFires ==
    /\ \E c \in 1 .. Len(calls) :
          /\ calls[c].at = "delay"
          /\ processImage(c)
    /\ UNCHANGED <<imageUrl, inputUrl, appPalette, status, mount>>
    /\ UNCHANGED <<isLoaded, scriptLoaded>>
    /\ UNCHANGED <<quantVars, hexVars>>

\* the init() a processImage awaits resolved: processImage goes on, line 54
InitAwaited ==
    /\ loadPromise = "resolved"
    /\ \E c \in 1 .. Len(calls) :
          /\ calls[c].at = "init"
          /\ calls' = [calls EXCEPT ![c].at = "processing"]
    /\ UNCHANGED <<imageUrl, inputUrl, appPalette, status, mount>>
    /\ UNCHANGED <<quantVars, hexVars, skiaVars>>

\* processImage(url) of a call resolved: lines 200-204
ProcessResolves ==
    /\ \E c \in 1 .. Len(calls) :
          /\ calls[c].at = "processing"
          /\ appPalette' = Result(calls[c].url)
          /\ status' = "success"
          /\ calls' = [calls EXCEPT ![c].at = "done"]
    /\ UNCHANGED <<imageUrl, inputUrl, mount>>
    /\ UNCHANGED <<quantVars, hexVars, skiaVars>>

\* processImage(url) of a call rejected, after the engine was loaded or
\* because the init() it awaits rejected: lines 205-212
ProcessRejects ==
    /\ \E c \in 1 .. Len(calls) :
          /\ \/ calls[c].at = "processing"
             \/ calls[c].at = "init" /\ loadPromise = "rejected"
          /\ status' = "error"
          /\ calls' = [calls EXCEPT ![c].at = "done"]
    /\ UNCHANGED <<imageUrl, inputUrl, appPalette, mount>>
    /\ UNCHANGED <<quantVars, hexVars, skiaVars>>

NextApp ==
    \/ Mount \/ InitThen \/ InitCatch \/ ChangeInput \/ Submit \/ SubmitEmpty
    \/ ClickSample \/ TimerFires \/ InitAwaited \/ ProcessResolves \/ ProcessRejects
    \/ ScriptLoads \/ IntervalTick
    \/ EngineResolves \/ ResolveLoad \/ EngineRejects \/ RejectLoad

SpecApp == InitApp /\ [][NextApp]_vars

---------------------------------------------------------------------------
(* Properties of quantizeColors *)

\* quantizeColors has returned: colors is its result
Returned == pc \in {"quantized", "done"} \/ (pc = "threw" /\ error = "TypeError")

Opaque(px) == { i \in 1 .. Len(px) : px[i].a >= 128 }

RECURSIVE SumPopulation(_)
SumPopulation(cs) ==
    IF cs = <<>> THEN 0 ELSE Head(cs).population + SumPopulation(Tail(cs))

\* the clusters of population n, in the order of the sequence cs
WithPopulation(cs, n) == SelectSeq(cs, LAMBDA c : c.population = n)

\* the clusters of each population are in cs in the order they have in the
\* sequence unsorted
SameOrderWithin(cs, unsorted) ==
    \A n \in 1 .. Len(pixels) : WithPopulation(cs, n) = WithPopulation(unsorted, n)

\* C1: the sequence quantizeColors returns has at most k entries, and every
\* entry has population >= 1: a cluster whose final count is 0 is not in it.
C1_AtMostKPopulated ==
    Returned =>
        /\ Len(colors) <= k
        /\ \A i \in 1 .. Len(colors) : colors[i].population >= 1
        /\ Len(colors) = Cardinality({ c \in 1 .. k : clusterCounts[c] # 0 })

C1_Witness ==
    /\ pc = "quantized"
    /\ Len(colors) >= 1
    /\ Len(colors) < k
    /\ \E c \in 1 .. k : clusterCounts[c] = 0

\* C2: the returned sequence is in descending order of population, and the
\* clusters of one population are in the order of their centroid indices.
C2_SortedStable ==
    Returned =>
        /\ \A i \in 1 .. Len(colors) - 1 :
              colors[i].population >= colors[i + 1].population
        /\ SameOrderWithin(colors, MapFilter(centroids, clusterCounts))

C2_Witness ==
    /\ pc = "quantized"
    /\ Len(colors) = 3
    /\ colors[1].population = colors[2].population
    /\ colors[2].population = colors[3].population
    /\ colors[1] # colors[2]
    /\ colors[2] # colors[3]
    /\ colors[1] # colors[3]

\* "#" and the two lowercase hex digits of each channel of the pixel p
ExactHex(p) ==
    "#" \o HexDigits[(p.r \div 16) + 1] \o HexDigits[(p.r % 16) + 1]
        \o HexDigits[(p.g \div 16) + 1] \o HexDigits[(p.g % 16) + 1]
        \o HexDigits[(p.b \div 16) + 1] \o HexDigits[(p.b % 16) + 1]

\* a buffer of N >= 1 pixels, all of one colour, all with alpha >= 128
SingleColour(px) ==
    /\ Len(px) >= 1
    /\ \A i \in 1 .. Len(px) :
          /\ px[i].a >= 128
          /\ px[i].r = px[1].r /\ px[i].g = px[1].g /\ px[i].b = px[1].b

\* C3: for a buffer of N pixels of one colour with alpha >= 128 and k >= 1,
\* whatever the sampling picks, exactly one cluster is returned, its
\* population is N and its hex is the hex encoding of the colour.
C3_SingleColour ==
    (Returned /\ k >= 1 /\ SingleColour(pixels)) =>
        /\ Len(colors) = 1
        /\ colors[1].population = Len(pixels)
        /\ colors[1].hex = ExactHex(pixels[1])

C3_Witness ==
    /\ pc = "quantized"
    /\ k >= 2
    /\ Len(pixels) >= 2
    /\ SingleColour(pixels)
    /\ pixels[1].b = 9
    /\ colors[1].hex = "#000009"

\* C5 as claimed: for k <= 0 quantizeColors raises no error and returns the
\* empty sequence.
C5_NonPositiveK ==
    (k <= 0 /\ pc # "sample") => (error # "RangeError" /\ colors = <<>>)

\* C6: with no pixel of alpha >= 128 (the empty buffer included) and k >= 1,
\* quantizeColors raises no error and returns the empty sequence.
C6_NoOpaquePixel ==
    (k >= 1 /\ Opaque(pixels) = {}) =>
        /\ error # "RangeError"
        /\ pc # "sample" => \A c \in 1 .. k : clusterCounts[c] = 0
        /\ Returned => colors = <<>>

C6_Witness ==
    /\ pc = "quantized"
    /\ k >= 2
    /\ Len(pixels) >= 2
    /\ Opaque(pixels) = {}
    /\ colors = <<>>

\* C10: the populations of the returned clusters sum to at most the number
\* of pixels with alpha >= 128.
C10_PopulationSum ==
    Returned => SumPopulation(colors) <= Cardinality(Opaque(pixels))

C10_Witness ==
    /\ pc = "quantized"
    /\ Len(colors) >= 2
    /\ Cardinality(Opaque(pixels)) < Len(pixels)
    /\ SumPopulation(colors) = Cardinality(Opaque(pixels))

\* the distances the code computes from the pixel p to the centroids d on,
\* p and cents the numbers they hold
RECURSIVE DistancesFrom(_, _, _)
DistancesFrom(p, cents, d) ==
    IF d > Len(cents) THEN <<>>
    ELSE <<colorDistanceSq(p, cents[d])>> \o DistancesFrom(p, cents, d + 1)

\* the distances of the pixels i on to the centroids
RECURSIVE PixelDistancesFrom(_, _)
PixelDistancesFrom(i, cents) ==
    IF i > Len(pixels) THEN <<>>
    ELSE <<DistancesFrom(RGBAt(pixels[i]), cents, 1)>> \o PixelDistancesFrom(i + 1, cents)

\* of the distances dist from a pixel to the centroids, that to the centroid
\* c is the first of the least
FirstNearest(c, dist) ==
    \A d \in 1 .. Len(centroids) :
        /\ ~DistLess(dist[d], dist[c])
        /\ d < c => DistLess(dist[c], dist[d])

\* the pixels with alpha >= 128 for which the centroid c is the first of the
\* nearest centroids, by the distances dists of the pixels to the centroids
AssignedTo(c, dists) == { i \in Opaque(pixels) : FirstNearest(c, dists[i]) }

RECURSIVE SumChannel(_, _, _)
SumChannel(A, ch, i) ==
    IF i > Len(pixels) THEN 0
    ELSE (IF i \in A
          THEN (IF ch = "r" THEN pixels[i].r ELSE IF ch = "g" THEN pixels[i].g
                ELSE pixels[i].b)
          ELSE 0) + SumChannel(A, ch, i + 1)

\* the value num/den is the mean of the channel ch of the pixels of A
IsMean(num, den, A, ch) ==
    den # 0 /\ num * Cardinality(A) = SumChannel(A, ch, 1) * den

\* the cluster c, to which the pixels A are assigned, keeps its centroid if A
\* is empty and gets the mean of the pixels of A if not
KeptOrMean(c, A) ==
    IF A = {}
    THEN centroids'[c] = centroids[c] /\ clusterCounts'[c] = 0
    ELSE /\ clusterCounts'[c] = Cardinality(A)
         /\ IsMean(centroids'[c].r, centroids'[c].n, A, "r")
         /\ IsMean(centroids'[c].g, centroids'[c].n, A, "g")
         /\ IsMean(centroids'[c].b, centroids'[c].n, A, "b")

\* with the distances dists of the pixels to the centroids, every cluster
\* keeps its centroid or gets the mean of the pixels assigned to it
EveryKeptOrMean(dists) ==
    \A c \in 1 .. Len(centroids) : KeptOrMean(c, AssignedTo(c, dists))

\* C12: there are exactly 5 iterations; in each, a cluster no pixel is
\* assigned to keeps its centroid, and a cluster with pixels assigned gets
\* the mean of the R, G, B of the pixels assigned to it in this iteration.
C12_CentroidFrame ==
    [][ /\ (pc = "iterate" /\ iter' # iter) =>
              /\ iter' = iter + 1
              /\ iter' <= 5
              /\ EveryKeptOrMean(PixelDistancesFrom(1, NumbersFrom(centroids, 1)))
        /\ (pc = "iterate" /\ pc' = "quantized") =>
              (iter = 5 /\ centroids' = centroids)
      ]_vars

C12_Witness ==
    /\ pc = "iterate"
    /\ iter = 5
    /\ \E c, d \in 1 .. Len(centroids) :
          /\ clusterCounts[c] = 0
          /\ centroids[c] = [r |-> 0, g |-> 200, b |-> 0, n |-> 1]
          /\ clusterCounts[d] >= 2
          /\ centroids[d].n = clusterCounts[d]

---------------------------------------------------------------------------
(* Properties of the role identification *)

\* the double x is above, below the double t
Above(x, t) == fCmp(x, t) = 1

Below(x, t) == fCmp(x, t) = -1

\* saturation > 0.3 and 0.3 < lightness < 0.8
VibrantCandidate(c) == Above(c.hsl.s, Lit03) /\ Above(c.hsl.l, Lit03) /\ Below(c.hsl.l, Lit08)

\* lightness < 0.4 and saturation > 0.2
DarkCandidate(c) == Below(c.hsl.l, Lit04) /\ Above(c.hsl.s, Lit02)

\* lightness > 0.7 and saturation > 0.2
LightCandidate(c) == Above(c.hsl.l, Lit07) /\ Above(c.hsl.s, Lit02)

\* saturation < 0.3 and 0.2 < lightness < 0.8
MutedCandidate(c) == Below(c.hsl.s, Lit03) /\ Above(c.hsl.l, Lit02) /\ Below(c.hsl.l, Lit08)

\* saturation * (1 + popRatio * 0.5), where popRatio is the population
\* over the population D of the dominant colour
Score(a, D) ==
    fMul(a.hsl.s, fAdd(One, fMul(fDiv(Number(a.population), Number(D)), Lit05)))

\* the score of a is less than that of b
ScoreLess(a, b, D) == fCmp(Score(a, D), Score(b, D)) = -1

\* C4: on an empty sequence from the quantizer the role identification fails
\* (the TypeError of reading dominant.isVibrant rejects processImage) and
\* returns no Palette; a Palette returned has a dominant colour.
C4_EmptySequence ==
    /\ (colors = <<>> /\ pc \in {"done", "threw"} /\ error # "RangeError") =>
          (pc = "threw" /\ error = "TypeError" /\ palette = null)
    /\ pc = "done" => (palette.dominant # undefined /\ palette.dominant # null)

C4_Witness ==
    /\ pc = "threw"
    /\ error = "TypeError"
    /\ k >= 1
    /\ Len(pixels) >= 1
    /\ Opaque(pixels) = {}
    /\ palette = null

\* C7 as claimed: with exactly one surviving cluster every role of the
\* Palette is filled, a role without an eligible candidate with dominant.
C7_FullyPopulated ==
    (pc = "done" /\ Len(colors) = 1) =>
        /\ palette.vibrant = palette.dominant
        /\ palette.muted = palette.dominant
        /\ palette.darkVibrant = palette.dominant
        /\ palette.lightVibrant = palette.dominant

\* C7, amended: with exactly one surviving cluster, dominant and vibrant are
\* that cluster, and each of muted, darkVibrant and lightVibrant is that
\* cluster when it is eligible for the role and null when it is not.
C7_SingleCluster ==
    (pc = "done" /\ Len(colors) = 1) =>
        /\ palette.dominant = colors[1]
        /\ palette.vibrant = colors[1]
        /\ palette.muted = (IF MutedCandidate(colors[1]) THEN colors[1] ELSE null)
        /\ palette.darkVibrant = (IF DarkCandidate(colors[1]) THEN colors[1] ELSE null)
        /\ palette.lightVibrant = (IF LightCandidate(colors[1]) THEN colors[1] ELSE null)

C7_Witness ==
    /\ pc = "done"
    /\ SingleColour(pixels)
    /\ Len(pixels) >= 2
    /\ Len(colors) = 1
    /\ palette.vibrant = colors[1]
    /\ palette.darkVibrant = colors[1]
    /\ palette.muted = null
    /\ palette.lightVibrant = null

\* C8: vibrant is the first-seen eligible candidate of the highest score; with
\* no eligible candidate it is dominant if dominant.isVibrant, else the
\* second-ranked colour if there is one, else dominant.  It is never null.
C8_Vibrant ==
    pc = "done" =>
        LET elig == { i \in 1 .. Len(colors) : VibrantCandidate(colors[i]) }
            D    == colors[1].population
        IN  /\ palette.vibrant # null
            /\ palette.vibrant # undefined
            /\ IF elig # {}
               THEN \E i \in elig :
                       /\ palette.vibrant = colors[i]
                       /\ \A j \in elig :
                             /\ ~ScoreLess(colors[i], colors[j], D)
                             /\ j < i => ScoreLess(colors[j], colors[i], D)
               ELSE palette.vibrant =
                       (IF colors[1].isVibrant THEN colors[1]
                        ELSE IF Len(colors) >= 2 THEN colors[2]
                        ELSE colors[1])

C8_Witness ==
    /\ pc = "done"
    /\ Len(colors) = 3
    /\ VibrantCandidate(colors[1])
    /\ palette.vibrant = colors[2]
    /\ colors[2] # colors[1]
    /\ colors[3] # colors[2]
    /\ VibrantCandidate(colors[3])
    /\ ~ScoreLess(colors[3], colors[2], colors[1].population)

\* role is the eligible candidate of the greatest population, the first-seen
\* among equal populations, and null when no candidate is eligible
MostPopulated(role, Candidate(_)) ==
    LET elig == { i \in 1 .. Len(colors) : Candidate(colors[i]) }
    IN  IF elig = {} THEN role = null
        ELSE /\ role # null
             /\ \E i \in elig :
                   /\ role = colors[i]
                   /\ \A j \in elig :
                         /\ colors[j].population <= colors[i].population
                         /\ j < i => colors[j].population < colors[i].population

\* C9: each of darkVibrant, lightVibrant and muted is, independently of the
\* other roles, the eligible candidate of the greatest population (the
\* first-seen among equals), and null exactly when none is eligible.
C9_PopulationRoles ==
    pc = "done" =>
        /\ MostPopulated(palette.darkVibrant, DarkCandidate)
        /\ MostPopulated(palette.lightVibrant, LightCandidate)
        /\ MostPopulated(palette.muted, MutedCandidate)

C9_Witness ==
    /\ pc = "done"
    /\ Len(colors) = 3
    /\ palette.darkVibrant = colors[1]
    /\ palette.vibrant = colors[1]
    /\ DarkCandidate(colors[2])
    /\ colors[2] # colors[1]
    /\ colors[2].population = colors[1].population
    /\ palette.lightVibrant = colors[3]
    /\ palette.muted = null

---------------------------------------------------------------------------
(* Properties of rgbToHex *)

\* the integer nearest to num/den (den > 0), the greater of two equally near
NearestInteger(num, den) ==
    CHOOSE m \in -4 .. 514 : 2 * den * m - den <= 2 * num /\ 2 * num < 2 * den * m + den

Rounded(c) ==
    [r |-> NearestInteger(c.r, c.n), g |-> NearestInteger(c.g, c.n),
     b |-> NearestInteger(c.b, c.n)]

Clamp(v) == IF v < 0 THEN 0 ELSE IF v > 255 THEN 255 ELSE v

InRange(v) == 0 <= v /\ v <= 255

\* C11 as claimed: for every RGB input rgbToHex returns "#" and six
\* lowercase hex digits, two per channel, of the channels rounded to the
\* nearest integer and clamped to 0 .. 255.
C11_AlwaysSixDigits ==
    hexString # "" =>
        hexString = ExactHex([r |-> Clamp(Rounded(rgbArg).r), g |-> Clamp(Rounded(rgbArg).g),
                        b |-> Clamp(Rounded(rgbArg).b)])

\* C11, amended: for every RGB input whose channels round to integers in
\* 0 .. 255, rgbToHex returns "#" and six lowercase hex digits, two
\* zero-padded digits per channel, of the channels rounded to the nearest
\* integer.
C11_InRangeSixDigits ==
    (hexString # "" /\ InRange(Rounded(rgbArg).r) /\ InRange(Rounded(rgbArg).g)
              /\ InRange(Rounded(rgbArg).b)) =>
        /\ hexString = ExactHex(Rounded(rgbArg))
        /\ Len(hexString) = 7

C11_Witness ==
    /\ rgbArg = [r |-> 31, g |-> 9, b |-> -1, n |-> 2]
    /\ hexString = "#100500"

---------------------------------------------------------------------------
(* Properties of the App *)

\* C13 as claimed: whenever the status is 'success' the palette displayed is
\* the one computed for the current imageUrl.
C13_PaletteOfCurrentUrl ==
    status = "success" => appPalette = Result(imageUrl)

---------------------------------------------------------------------------
(* Properties of SkiaService.init *)

\* C14: CanvasKitInit is invoked at most once, also when calls follow a
\* failed load: one loadPromise is created, and every caller that finds the
\* engine not loaded gets it.
C14_SingleLoad ==
    /\ invocations <= 1
    /\ Cardinality({ i \in 1 .. Len(callers) : callers[i].found = "created" }) <= 1
    /\ \A i \in 1 .. Len(callers) :
          /\ callers[i].found # "loaded" => loadPromise # "null"
          /\ (i > 1 /\ callers[i].found # "loaded") => callers[i].found = "shared"
    /\ isLoaded => (invocations = 1 /\ loadPromise \in {"pending", "resolved"})

C14_Witness ==
    /\ invocations = 1
    /\ loadPromise = "rejected"
    /\ engine = "rejected"
    /\ Len(callers) = 3
    /\ callers[1].found = "created"
    /\ callers[2] = [by |-> "processImage", found |-> "shared", promise |-> "pending"]
    /\ callers[3] = [by |-> "processImage", found |-> "shared", promise |-> "rejected"]

====
